---------------------------- MODULE Spec2Model ----------------------------
(***************************************************************************)
(* Model of the credential manager: the password utilities of              *)
(* src/lib/crypto.ts, the row-level policies of the credentials table, the *)
(* Dashboard component's handlers with their requests in flight, its       *)
(* search filter, and the Signup page's submit handler.                    *)
(*                                                                         *)
(* A string is a sequence of characters; a character is a one-character    *)
(* string, except NonAsciiChar, which stands for a UTF-16 code unit        *)
(* outside ASCII (such as U+00F1).                                         *)
(***************************************************************************)
EXTENDS Integers, Sequences, FiniteSets, Bags, TLC

VARIABLES
    password,      \* crypto.ts: the argument of checkPasswordStrength
    strength,      \* crypto.ts: what checkPasswordStrength returned, or NoResult
    genLength,     \* crypto.ts: generateStrongPassword's parameter length
    genI,          \* crypto.ts: generateStrongPassword's loop counter i
    genCharset,    \* crypto.ts: generateStrongPassword's local charset
    genPassword,   \* crypto.ts: generateStrongPassword's local password
    genPc,         \* where generateStrongPassword is: "idle", "loop", "done"
    session,       \* Dashboard: session?.user?.id of useAuth(), or NoUser
    store,         \* the rows of the credentials table
    nextId,        \* the id the table gives the next inserted row
    credentials,   \* Dashboard: the credentials state
    showAddForm,   \* Dashboard: the showAddForm state
    editingCredential, \* Dashboard: the editingCredential state, or NoCredential
    tasks,         \* Dashboard: the handler calls waiting at an await (a bag)
    lastToast,     \* the message the last step gave to toast, or NoToast
    confirmAnswer, \* what confirm() returned in the last step: "none", "yes", "no"
    searchTerm,    \* Dashboard: the searchTerm state
    location,      \* the route shown: "/signup", "/login"
    email,         \* Signup: the email state
    signupPassword,  \* Signup: the password state
    confirmPassword, \* Signup: the confirmPassword state
    loading,       \* Signup: the loading state
    signUps,       \* the handleSignup calls waiting for supabase.auth.signUp (a bag)
    signupToast    \* the message the last step of the sign-up page gave to toast

utilVars == <<password, strength, genLength, genI, genCharset, genPassword, genPc>>

dashVars ==
    <<session, store, nextId, credentials, showAddForm, editingCredential, tasks,
      lastToast, confirmAnswer>>

signupVars ==
    <<location, email, signupPassword, confirmPassword, loading, signUps, signupToast>>

vars ==
    <<password, strength, genLength, genI, genCharset, genPassword, genPc, session,
      store, nextId, credentials, showAddForm, editingCredential, tasks, lastToast,
      confirmAnswer, searchTerm, location, email, signupPassword, confirmPassword,
      loading, signUps, signupToast>>

-----------------------------------------------------------------------------
(* Characters *)

Range(seq) == {seq[i] : i \in 1..Len(seq)}

LowerChars ==
    {"a","b","c","d","e","f","g","h","i","j","k","l","m",
     "n","o","p","q","r","s","t","u","v","w","x","y","z"}

UpperChars ==
    {"A","B","C","D","E","F","G","H","I","J","K","L","M",
     "N","O","P","Q","R","S","T","U","V","W","X","Y","Z"}

DigitChars == {"0","1","2","3","4","5","6","7","8","9"}

NonAsciiChar == "U+00F1"

\* A-Za-z0-9
AlnumChars == UpperChars \cup LowerChars \cup DigitChars

-----------------------------------------------------------------------------
(* generateStrongPassword *)

\* charset with the last two symbols doubled, as a miscounted literal would be
charsetPadded ==
    << "a","b","c","d","e","f","g","h","i","j","k","l","m",
       "n","o","p","q","r","s","t","u","v","w","x","y","z",
       "A","B","C","D","E","F","G","H","I","J","K","L","M",
       "N","O","P","Q","R","S","T","U","V","W","X","Y","Z",
       "0","1","2","3","4","5","6","7","8","9",
       "!","@","#","$","%","^","&","*","(",")","_","+","-","=",
       "[","]","{","}","|",";",":",",",".","<",">","?",">","?" >>

charset ==
    << "a","b","c","d","e","f","g","h","i","j","k","l","m",
       "n","o","p","q","r","s","t","u","v","w","x","y","z",
       "A","B","C","D","E","F","G","H","I","J","K","L","M",
       "N","O","P","Q","R","S","T","U","V","W","X","Y","Z",
       "0","1","2","3","4","5","6","7","8","9",
       "!","@","#","$","%","^","&","*","(",")","_","+","-","=",
       "[","]","{","}","|",";",":",",",".","<",">","?" >>

\* String.prototype.charAt: the character at a 0-based index, "" out of range
CharAt(str, idx) ==
    IF idx >= 0 /\ idx < Len(str) THEN <<str[idx + 1]>> ELSE <<>>

\* Math.random() returns k / RandomResolution for some k in 0..RandomResolution-1
RandomResolution == 1000

RandomSamples == {0, RandomResolution - 1}

\* Math.round in place of Math.floor
RandomIndexRounded(k, n) == (2 * k * n + RandomResolution) \div (2 * RandomResolution)

\* Math.floor(Math.random() * charset.length)
RandomIndex(k, n) == (k * n) \div RandomResolution

\* generateStrongPassword(length = 16)
DefaultLength == 16

MaxShortLength == 5

\* the lengths asked for: the short ones and the default
GenLengths == (0..MaxShortLength) \cup {DefaultLength}

GenCall(n) ==
    /\ genPc \in {"idle", "done"}
    /\ genLength' = n
    /\ genCharset' = charset
    /\ genPassword' = <<>>
    /\ genI' = 0
    /\ genPc' = "loop"
    /\ UNCHANGED <<password, strength>>
    /\ UNCHANGED <<dashVars, searchTerm, signupVars>>

GenStep(k) ==
    /\ genPc = "loop"
    /\ genI < genLength
    /\ genPassword' = genPassword \o CharAt(genCharset, RandomIndex(k, Len(genCharset)))
    /\ genI' = genI + 1
    /\ UNCHANGED <<genLength, genCharset, genPc, password, strength>>
    /\ UNCHANGED <<dashVars, searchTerm, signupVars>>

GenReturn ==
    /\ genPc = "loop"
    /\ ~(genI < genLength)
    /\ genPc' = "done"
    /\ UNCHANGED <<genLength, genI, genCharset, genPassword, password, strength>>
    /\ UNCHANGED <<dashVars, searchTerm, signupVars>>

-----------------------------------------------------------------------------
(* checkPasswordStrength *)

NoResult == [score |-> -1, feedback |-> <<>>]

LetterChars == UpperChars \cup LowerChars

\* /[A-Z]/i
HasUpperIgnoreCase(pw) == \E i \in 1..Len(pw) : pw[i] \in LetterChars

\* /[A-Z]/.test(password)
HasUpper(pw) == \E i \in 1..Len(pw) : pw[i] \in UpperChars

\* /[a-z]/.test(password)
HasLower(pw) == \E i \in 1..Len(pw) : pw[i] \in LowerChars

\* /[0-9]/.test(password)
HasDigit(pw) == \E i \in 1..Len(pw) : pw[i] \in DigitChars

\* /[^A-Za-z0-9]/.test(password)
HasSymbol(pw) == \E i \in 1..Len(pw) : pw[i] \notin AlnumChars

\* password.length > 8
LengthAtLeast8Strict(pw) == Len(pw) > 8

\* password.length >= 8
LengthAtLeast8(pw) == Len(pw) >= 8

\* the second length point awarded at the first threshold
LengthAtLeast12Early(pw) == Len(pw) >= 8

\* password.length >= 12
LengthAtLeast12(pw) == Len(pw) >= 12

Point(b) == IF b THEN 1 ELSE 0

Score(pw) ==
    Point(LengthAtLeast8(pw)) + Point(LengthAtLeast12(pw)) + Point(HasUpper(pw))
        + Point(HasLower(pw)) + Point(HasDigit(pw)) + Point(HasSymbol(pw))

MsgWeak == "Password is weak"
MsgModerate == "Password is moderate"
MsgStrong == "Password is strong"
MsgLength == "Password should be at least 8 characters long"
MsgUpper == "Add uppercase letters"
MsgLower == "Add lowercase letters"
MsgDigit == "Add numbers"
MsgSymbol == "Add special characters"

\* the thresholds compared with <= instead of <
LabelInclusive(score) ==
    IF score <= 3 THEN MsgWeak
    ELSE IF score <= 5 THEN MsgModerate
    ELSE MsgStrong

Label(score) ==
    IF score < 3 THEN MsgWeak
    ELSE IF score < 5 THEN MsgModerate
    ELSE MsgStrong

Push(b, msg) == IF b THEN <<msg>> ELSE <<>>

Suggestions(pw) ==
    Push(Len(pw) < 8, MsgLength)
        \o Push(~HasUpper(pw), MsgUpper)
        \o Push(~HasLower(pw), MsgLower)
        \o Push(~HasDigit(pw), MsgDigit)
        \o Push(~HasSymbol(pw), MsgSymbol)

checkPasswordStrength(pw) ==
    [score |-> Score(pw), feedback |-> <<Label(Score(pw))>> \o Suggestions(pw)]

\* the two passwords of the documented examples
PwA == <<"a">>
PwAbcdef12 == <<"A","b","c","d","e","f","1","2","!">>

SamplePasswords == {PwA, PwAbcdef12}

\* one character of each class the regular expressions tell apart
TypedChars == {"a", "A", "1", "!", NonAsciiChar}

MaxTyped == 4
MaxPad == 9

RECURSIVE Repeat(_, _)
Repeat(c, k) == IF k = 0 THEN <<>> ELSE <<c>> \o Repeat(c, k - 1)

TypedBodies == UNION {[1..n -> TypedChars] : n \in 0..MaxTyped}

\* a typed body, then its last character held down
PasswordInputs ==
    SamplePasswords
        \cup TypedBodies
        \cup {b \o Repeat(b[Len(b)], k) : b \in TypedBodies \ {<<>>}, k \in 1..MaxPad}

CheckStrength ==
    /\ strength = NoResult
    /\ strength' = checkPasswordStrength(password)
    /\ UNCHANGED <<password, genLength, genI, genCharset, genPassword, genPc>>
    /\ UNCHANGED <<dashVars, searchTerm, signupVars>>

ClearStrength ==
    /\ strength # NoResult
    /\ strength' = NoResult
    /\ UNCHANGED <<password, genLength, genI, genCharset, genPassword, genPc>>
    /\ UNCHANGED <<dashVars, searchTerm, signupVars>>

-----------------------------------------------------------------------------
(* The credentials table and its row-level policies *)

Users == {"u1", "u2"}

NoUser == "none"

\* every row has an owner: user_id uuid REFERENCES auth.users NOT NULL
Row(id, data) == [id |-> id, user_id |-> data.user_id, password |-> data.password]

\* FOR SELECT TO authenticated USING (auth.uid() = user_id)
CanView(auth, row) == auth \in Users /\ auth = row.user_id

\* FOR INSERT TO authenticated WITH CHECK (auth.uid() = user_id)
CanInsert(auth, row) == auth \in Users /\ auth = row.user_id

\* FOR UPDATE TO authenticated USING (auth.uid() = user_id)
CanUpdate(auth, row) == auth \in Users /\ auth = row.user_id

\* FOR DELETE TO authenticated USING (auth.uid() = user_id)
CanDelete(auth, row) == auth \in Users /\ auth = row.user_id

\* .select('*') without .eq('user_id', uid)
SelectUnfiltered(rows, auth, uid) == {r \in rows : CanView(auth, r)}

\* .select('*').eq('user_id', uid)
Select(rows, auth, uid) == {r \in rows : CanView(auth, r) /\ r.user_id = uid}

\* .update(data).eq('id', id) without .eq('user_id', uid)
UpdateTargetsById(rows, auth, id, uid) == {r \in rows : CanUpdate(auth, r) /\ r.id = id}

\* the rows .update(data).eq('id', id).eq('user_id', uid) applies to
UpdateTargets(rows, auth, id, uid) ==
    {r \in rows : CanUpdate(auth, r) /\ r.id = id /\ r.user_id = uid}

\* the rows .delete().eq('id', id).eq('user_id', uid) applies to
DeleteTargets(rows, auth, id, uid) ==
    {r \in rows : CanDelete(auth, r) /\ r.id = id /\ r.user_id = uid}

\* .update(data): the new rows must pass the policy's WITH CHECK
UpdateRejected(rows, auth, id, uid, data) ==
    \E r \in UpdateTargets(rows, auth, id, uid) : ~CanUpdate(auth, Row(r.id, data))

Update(rows, auth, id, uid, data) ==
    (rows \ UpdateTargets(rows, auth, id, uid))
        \cup {Row(r.id, data) : r \in UpdateTargets(rows, auth, id, uid)}

Delete(rows, auth, id, uid) == rows \ DeleteTargets(rows, auth, id, uid)

\* the rows of a result as the array the client receives, in order of id
RECURSIVE AsArray(_)
AsArray(S) ==
    IF S = {} THEN <<>>
    ELSE LET first == CHOOSE r \in S : \A q \in S : r.id <= q.id
         IN  <<first>> \o AsArray(S \ {first})

-----------------------------------------------------------------------------
(* The Dashboard component *)

NoCredential == [id |-> 0, user_id |-> NoUser, password |-> <<>>]

NoData == [user_id |-> NoUser, password |-> <<>>]

NoToast == <<>>

ToastMustLogIn == <<"You must be logged in to save credentials">>
ToastStronger(feedback) == <<"Please use a stronger password: ">> \o feedback
ToastUpdated == <<"Credential updated successfully!">>
ToastAdded == <<"Credential added successfully!">>
ToastDeleted == <<"Credential deleted successfully!">>
ToastStoreError == <<"error.message">>
ToastDeleteError == <<"Error deleting credential">>
ToastFetchError == <<"Error fetching credentials">>

PwAbcdefgh == <<"a","b","c","d","e","f","g","h">>
PwAbcdefg1 == <<"a","b","c","d","e","f","g","1">>

\* what the user may have typed in the form's password field
FormPasswords == {PwAbcdefgh, PwAbcdefg1}

\* const { score, feedback } = checkPasswordStrength(password)
FormStrength == [pw \in FormPasswords |-> checkPasswordStrength(pw)]

MaxInFlight == 2

\* the accounts that sign in to this dashboard
SessionUsers == {"u1"}
MaxId == 3

\* the rows the table holds when the dashboard is opened
InitialStore ==
    { [id |-> 1, user_id |-> "u1", password |-> PwAbcdef12],
      [id |-> 2, user_id |-> "u2", password |-> PwAbcdef12] }

\* A handler call suspended at an await: the handler (kind: "save", "delete",
\* or "fetch" for fetchCredentials called by the effect), the session user id
\* it read (uid), the credential it was called for (id: the one edited or
\* deleted, 0 for the add form and for the effect), and the request it
\* awaits (op), which is on its way to the
\* table (pc = "sent") or answered (pc = "served"). auth is the user the
\* client is signed in as when it sends the request: the auth.uid() of the
\* policies. count is the number of rows the table applied a write to; the
\* response does not carry it and no handler reads it.
Request(kind, op, uid, auth, id, data) ==
    [kind |-> kind, op |-> op, pc |-> "sent", uid |-> uid, auth |-> auth, id |-> id,
     data |-> data, error |-> FALSE, rows |-> <<>>, count |-> 0]

\* the { data, error } the request of t resolves to
Response(t, error, rows) ==
    [kind |-> t.kind, op |-> t.op, pc |-> "served", uid |-> t.uid, auth |-> NoUser,
     id |-> t.id, data |-> NoData, error |-> error, rows |-> rows, count |-> 0]

\* the { error: null } of a write the table applied to n rows
Applied(t, n) == [Response(t, FALSE, <<>>) EXCEPT !.count = n]

Running == BagToSet(tasks)

Spawn(t) == tasks (+) SetToBag({t})

Finish(t) == tasks (-) SetToBag({t})

Resume(t, u) == (tasks (-) SetToBag({t})) (+) SetToBag({u})

FormOpen == showAddForm \/ editingCredential # NoCredential

\* the form the render shows: {(showAddForm || editingCredential) && ...} with
\* the title and the isEditing argument taken from editingCredential
FormShown ==
    IF editingCredential # NoCredential THEN "edit"
    ELSE IF showAddForm THEN "add"
    ELSE "none"

\* the gate one notch too low
TooWeakBelow2(score) == score < 2

\* if (score < 3)
TooWeak(score) == score < 3

\* the session check left out
SignedOutNever(s) == FALSE

\* !session?.user?.id
SignedOut(s) == s = NoUser

\* const { data, error } = await supabase.from('credentials').select('*')...
FetchRequest(kind, uid, auth) == Request(kind, "select", uid, auth, 0, NoData)

\* useEffect(() => { fetchCredentials(); }, [fetchCredentials]) on mount
DashboardMounted ==
    /\ session \in SessionUsers \cup {NoUser}
    /\ store = InitialStore
    /\ nextId = 3
    /\ credentials = <<>>
    /\ showAddForm = FALSE
    /\ editingCredential = NoCredential
    /\ tasks = IF SignedOut(session) THEN EmptyBag
               ELSE SetToBag({FetchRequest("fetch", session, session)})
    /\ lastToast = NoToast
    /\ confirmAnswer = "none"
    /\ searchTerm = <<>>

DashboardUnmounted ==
    /\ session = NoUser
    /\ store = {}
    /\ nextId = 1
    /\ credentials = <<>>
    /\ showAddForm = FALSE
    /\ editingCredential = NoCredential
    /\ tasks = EmptyBag
    /\ lastToast = NoToast
    /\ confirmAnswer = "none"
    /\ searchTerm = <<>>

\* a step that shows no toast and no dialog
Silent == lastToast' = NoToast /\ confirmAnswer' = "none"

\* the session of useAuth() changes; the effect calls the new fetchCredentials
SessionChange(u) ==
    /\ u # session
    /\ session' = u
    /\ IF SignedOut(u)
       THEN UNCHANGED tasks
       ELSE /\ BagCardinality(tasks) < MaxInFlight
            /\ tasks' = Spawn(FetchRequest("fetch", u, u))
    /\ UNCHANGED <<store, nextId, credentials, showAddForm, editingCredential>>
    /\ Silent
    /\ UNCHANGED <<utilVars, searchTerm, signupVars>>

\* onClick of Add New without setEditingCredential(null)
ClickAddNewKeepsEditing ==
    /\ showAddForm' = TRUE
    /\ UNCHANGED <<session, store, nextId, credentials, editingCredential, tasks>>
    /\ Silent
    /\ UNCHANGED <<utilVars, searchTerm, signupVars>>

\* onClick of Add New
ClickAddNew ==
    /\ showAddForm' = TRUE
    /\ editingCredential' = NoCredential
    /\ UNCHANGED <<session, store, nextId, credentials, tasks>>
    /\ Silent
    /\ UNCHANGED <<utilVars, searchTerm, signupVars>>

\* onClick of a row's Edit
ClickEdit(cred) ==
    /\ cred \in Range(credentials)
    /\ editingCredential' = cred
    /\ UNCHANGED <<session, store, nextId, credentials, showAddForm, tasks>>
    /\ Silent
    /\ UNCHANGED <<utilVars, searchTerm, signupVars>>

\* onClick of the form's Cancel
ClickCancel ==
    /\ FormOpen
    /\ showAddForm' = FALSE
    /\ editingCredential' = NoCredential
    /\ UNCHANGED <<session, store, nextId, credentials, tasks>>
    /\ Silent
    /\ UNCHANGED <<utilVars, searchTerm, signupVars>>

\* a submit button that is disabled while a save is under way
SubmittableWhenNotSaving == FormOpen /\ \A t \in Running : t.kind # "save"

\* the form's <button type="submit"> has no disabled attribute: the form can
\* be submitted whenever it is shown
Submittable == FormOpen

\* handleSave up to its first await
HandleSave(pw) ==
    /\ Submittable
    /\ IF SignedOut(session)
       THEN /\ lastToast' = ToastMustLogIn
            /\ UNCHANGED tasks
       ELSE IF TooWeak(FormStrength[pw].score)
       THEN /\ lastToast' = ToastStronger(FormStrength[pw].feedback)
            /\ UNCHANGED tasks
       ELSE /\ BagCardinality(tasks) < MaxInFlight
            /\ tasks' =
                   Spawn(IF editingCredential # NoCredential
                         THEN Request("save", "update", session, session,
                                      editingCredential.id,
                                      [user_id |-> session, password |-> pw])
                         ELSE Request("save", "insert", session, session, 0,
                                      [user_id |-> session, password |-> pw]))
            /\ lastToast' = NoToast
    /\ confirmAnswer' = "none"
    /\ UNCHANGED <<session, store, nextId, credentials, showAddForm, editingCredential>>
    /\ UNCHANGED <<utilVars, searchTerm, signupVars>>

\* the answer to the prompt not looked at
ConfirmIgnored(answer) == TRUE

\* if (!confirm('Are you sure you want to delete this credential?')) return;
Confirmed(answer) == answer

\* handleDelete up to its await
HandleDelete(id, answer) ==
    /\ id \in {c.id : c \in Range(credentials)}
    /\ IF SignedOut(session)
       THEN /\ confirmAnswer' = "none"
            /\ UNCHANGED tasks
       ELSE /\ confirmAnswer' = IF answer THEN "yes" ELSE "no"
            /\ IF Confirmed(answer)
               THEN /\ BagCardinality(tasks) < MaxInFlight
                    /\ tasks' = Spawn(Request("delete", "delete", session, session, id,
                                              NoData))
               ELSE UNCHANGED tasks
    /\ lastToast' = NoToast
    /\ UNCHANGED <<session, store, nextId, credentials, showAddForm, editingCredential>>
    /\ UNCHANGED <<utilVars, searchTerm, signupVars>>

\* the table serves an insert, update or delete request
ServeWrite(t) ==
    /\ t \in Running
    /\ t.pc = "sent"
    /\ t.op \in {"insert", "update", "delete"}
    /\ CASE t.op = "insert" ->
              /\ nextId <= MaxId
              /\ IF CanInsert(t.auth, Row(nextId, t.data))
                 THEN /\ store' = store \cup {Row(nextId, t.data)}
                      /\ nextId' = nextId + 1
                      /\ tasks' = Resume(t, Applied(t, 1))
                 ELSE /\ tasks' = Resume(t, Response(t, TRUE, <<>>))
                      /\ UNCHANGED <<store, nextId>>
         [] t.op = "update" ->
              /\ IF UpdateRejected(store, t.auth, t.id, t.uid, t.data)
                 THEN /\ tasks' = Resume(t, Response(t, TRUE, <<>>))
                      /\ UNCHANGED store
                 ELSE /\ store' = Update(store, t.auth, t.id, t.uid, t.data)
                      /\ tasks' =
                             Resume(t, Applied(t, Cardinality(UpdateTargets(store, t.auth,
                                                                             t.id, t.uid))))
              /\ UNCHANGED nextId
         [] t.op = "delete" ->
              /\ store' = Delete(store, t.auth, t.id, t.uid)
              /\ tasks' =
                     Resume(t, Applied(t, Cardinality(DeleteTargets(store, t.auth, t.id,
                                                                     t.uid))))
              /\ UNCHANGED nextId
    /\ UNCHANGED <<session, credentials, showAddForm, editingCredential>>
    /\ Silent
    /\ UNCHANGED <<utilVars, searchTerm, signupVars>>

\* the table serves a select request
ServeSelect(t) ==
    /\ t \in Running
    /\ t.pc = "sent"
    /\ t.op = "select"
    /\ tasks' = Resume(t, Response(t, FALSE, AsArray(Select(store, t.auth, t.uid))))
    /\ UNCHANGED <<session, store, nextId, credentials, showAddForm, editingCredential>>
    /\ Silent
    /\ UNCHANGED <<utilVars, searchTerm, signupVars>>

\* a request fails: the network drops it or the table rejects it
RequestFails(t) ==
    /\ t \in Running
    /\ t.pc = "sent"
    /\ tasks' = Resume(t, Response(t, TRUE, <<>>))
    /\ UNCHANGED <<session, store, nextId, credentials, showAddForm, editingCredential>>
    /\ Silent
    /\ UNCHANGED <<utilVars, searchTerm, signupVars>>

\* the handler returning after its write, fetchCredentials() left out
ContinueWithoutFetch(t) == Finish(t)

\* await fetchCredentials() of handleSave and handleDelete: the callback of
\* the render the handler was called in, which reads that render's session
ContinueWithFetch(t) ==
    Resume(t, [FetchRequest(t.kind, t.uid, session) EXCEPT
                   !.id = IF t.kind = "save" THEN t.id ELSE 0])

\* handleSave and handleDelete after the await of the write
WriteReturns(t) ==
    /\ t \in Running
    /\ t.pc = "served"
    /\ t.op \in {"insert", "update", "delete"}
    /\ IF t.error
       THEN /\ lastToast' = IF t.kind = "delete" THEN ToastDeleteError ELSE ToastStoreError
            /\ tasks' = Finish(t)
       ELSE /\ lastToast' = CASE t.op = "update" -> ToastUpdated
                              [] t.op = "insert" -> ToastAdded
                              [] t.op = "delete" -> ToastDeleted
            /\ tasks' = ContinueWithFetch(t)
    /\ confirmAnswer' = "none"
    /\ UNCHANGED <<session, store, nextId, credentials, showAddForm, editingCredential>>
    /\ UNCHANGED <<utilVars, searchTerm, signupVars>>

\* fetchCredentials after its await, then the rest of the handler that called it
SelectReturns(t) ==
    /\ t \in Running
    /\ t.pc = "served"
    /\ t.op = "select"
    /\ IF t.error
       THEN /\ lastToast' = ToastFetchError
            /\ UNCHANGED credentials
       ELSE /\ credentials' = t.rows
            /\ lastToast' = NoToast
    /\ IF t.kind = "save"
       THEN /\ showAddForm' = FALSE
            /\ editingCredential' = NoCredential
       ELSE UNCHANGED <<showAddForm, editingCredential>>
    /\ tasks' = Finish(t)
    /\ confirmAnswer' = "none"
    /\ UNCHANGED <<session, store, nextId>>
    /\ UNCHANGED <<utilVars, searchTerm, signupVars>>

-----------------------------------------------------------------------------
(* The table as any client may use it *)

\* the column values a client may send
ClientData == {[user_id |-> u, password |-> pw] : u \in Users, pw \in {PwAbcdefg1, PwAbcdef12}}

\* a client signed in as auth (or anonymous) sends one request of the table's API
ClientSends(op, auth, uid, id, data) ==
    /\ tasks = EmptyBag
    /\ tasks' = Spawn(Request("client", op, uid, auth, id,
                              IF op \in {"insert", "update"} THEN data ELSE NoData))
    /\ UNCHANGED <<session, store, nextId, credentials, showAddForm, editingCredential>>
    /\ Silent
    /\ UNCHANGED <<utilVars, searchTerm, signupVars>>

\* the client takes the response
ClientReceives(t) ==
    /\ t \in Running
    /\ t.pc = "served"
    /\ tasks' = Finish(t)
    /\ UNCHANGED <<session, store, nextId, credentials, showAddForm, editingCredential>>
    /\ Silent
    /\ UNCHANGED <<utilVars, searchTerm, signupVars>>

-----------------------------------------------------------------------------
(* The search of the Dashboard *)

NonAsciiUpperChar == "U+00D1"

\* the characters String.prototype.toLowerCase changes, with what they become
LowerOf ==
    [c \in UpperChars \cup {NonAsciiUpperChar} |->
        IF c = NonAsciiUpperChar THEN NonAsciiChar
        ELSE charset[(CHOOSE i \in 27..52 : charset[i] = c) - 26]]

\* the string left as it is
KeepCase(str) == str

\* String.prototype.toLowerCase
ToLowerCase(str) ==
    [i \in 1..Len(str) |-> IF str[i] \in DOMAIN LowerOf THEN LowerOf[str[i]] ELSE str[i]]

\* String.prototype.includes
Includes(str, part) ==
    \E from \in 0..(Len(str) - Len(part)) : SubSeq(str, from + 1, from + Len(part)) = part

\* an optional column (notes?: string): <<>> when null, <<text>> otherwise
Null == <<>>

\* cred.notes && ...: null and the empty string are falsy
Truthy(optional) == optional # Null /\ optional[1] # <<>>

\* the callback of credentials.filter
MatchesSearch(cred, term) ==
    \/ Includes(ToLowerCase(cred.platform), ToLowerCase(term))
    \/ Includes(ToLowerCase(cred.username), ToLowerCase(term))
    \/ (Truthy(cred.notes) /\ Includes(ToLowerCase(cred.notes[1]), ToLowerCase(term)))

\* Array.prototype.filter with that callback
RECURSIVE ArrayFilter(_, _)
ArrayFilter(list, term) ==
    IF list = <<>> THEN <<>>
    ELSE (IF MatchesSearch(Head(list), term) THEN <<Head(list)>> ELSE <<>>)
             \o ArrayFilter(Tail(list), term)

\* const filteredCredentials = credentials.filter(...)
filteredCredentials == ArrayFilter(credentials, searchTerm)

\* the credentials the list may hold
ListedCredentials ==
    { [id |-> 1, platform |-> <<"a", "B">>, username |-> <<"b">>, notes |-> Null],
      [id |-> 2, platform |-> <<"b">>, username |-> <<"1">>, notes |-> <<<<"A", "a">>>>],
      [id |-> 3, platform |-> <<"1">>, username |-> <<NonAsciiUpperChar>>, notes |-> <<<<>>>>],
      [id |-> 4, platform |-> <<"B", "1">>, username |-> <<"A">>,
       notes |-> <<<<NonAsciiChar, "b">>>>] }

MaxListed == 2

\* what the user may type in the search field
SearchChars == {"a", "A", "B", "1", NonAsciiUpperChar}

MaxTerm == 2

SearchTerms == UNION {[1..n -> SearchChars] : n \in 0..MaxTerm}

\* onChange of the search field
SetSearchTerm(term) ==
    /\ searchTerm' = term
    /\ UNCHANGED <<utilVars, dashVars, signupVars>>

-----------------------------------------------------------------------------
(* The Signup page *)

NoEmail == <<>>

EmailA == <<"a@example.com">>

\* what the user may type in the email field
Emails == {NoEmail, EmailA}

\* what the user may type in the two password fields
SignupPasswords == {<<>>, PwA, PwAbcdefgh, PwAbcdefg1}

\* minLength={8} of the two password fields
MinLength == 8

MaxSignUps == 2

ToastMismatch == <<"Passwords do not match">>
ToastCreated ==
    <<"Account created successfully! Please check your email to verify your account.">>
ToastExists == <<"An account with this email already exists">>
ToastSignupError == <<"error.message || Error creating account">>

\* what supabase.auth.signUp resolves to: an error whose message includes
\* 'already exists', another error, a user, or neither
SignUpOutcomes == {"exists", "error", "user", "nouser"}

\* a handleSignup call waiting at its await; live while the component that
\* made the call is mounted
SignUpRequest(e, pw) == [email |-> e, password |-> pw, live |-> TRUE]

\* the component is unmounted: the calls in flight belong to no page
Orphaned(calls) ==
    LET orphans == {[r EXCEPT !.live = FALSE] : r \in BagToSet(calls)}
    IN  [o \in orphans |-> CopiesIn(o, calls) + CopiesIn([o EXCEPT !.live = TRUE], calls)]

\* the fields as a freshly mounted Signup holds them
SignupFresh ==
    /\ email = NoEmail
    /\ signupPassword = <<>>
    /\ confirmPassword = <<>>
    /\ loading = FALSE

SignupClosed ==
    /\ location = "/login"
    /\ SignupFresh
    /\ signUps = EmptyBag
    /\ signupToast = NoToast

SignupMounted ==
    /\ location = "/signup"
    /\ SignupFresh
    /\ signUps = EmptyBag
    /\ signupToast = NoToast

\* the lengths compared in place of the strings
DifferInLength(pw, confirm) == Len(pw) # Len(confirm)

\* password !== confirmPassword
Differ(pw, confirm) == pw # confirm

\* the browser submits the form: the fields are required, the password
\* fields have minLength 8, and the submit button is disabled while loading
CanSubmitSignup ==
    /\ location = "/signup"
    /\ ~loading
    /\ email # NoEmail
    /\ Len(signupPassword) >= MinLength
    /\ Len(confirmPassword) >= MinLength

\* onChange of the email field
TypeEmail(v) ==
    /\ location = "/signup"
    /\ email' = v
    /\ signupToast' = NoToast
    /\ UNCHANGED <<location, signupPassword, confirmPassword, loading, signUps>>
    /\ UNCHANGED <<utilVars, dashVars, searchTerm>>

\* onChange of the password field
TypePassword(v) ==
    /\ location = "/signup"
    /\ signupPassword' = v
    /\ signupToast' = NoToast
    /\ UNCHANGED <<location, email, confirmPassword, loading, signUps>>
    /\ UNCHANGED <<utilVars, dashVars, searchTerm>>

\* onChange of the confirmation field
TypeConfirm(v) ==
    /\ location = "/signup"
    /\ confirmPassword' = v
    /\ signupToast' = NoToast
    /\ UNCHANGED <<location, email, signupPassword, loading, signUps>>
    /\ UNCHANGED <<utilVars, dashVars, searchTerm>>

\* handleSignup up to its await
HandleSignup ==
    /\ CanSubmitSignup
    /\ IF Differ(signupPassword, confirmPassword)
       THEN /\ signupToast' = ToastMismatch
            /\ loading' = FALSE
            /\ UNCHANGED signUps
       ELSE /\ BagCardinality(signUps) < MaxSignUps
            /\ loading' = TRUE
            /\ signUps' = signUps (+) SetToBag({SignUpRequest(email, signupPassword)})
            /\ signupToast' = NoToast
    /\ UNCHANGED <<location, email, signupPassword, confirmPassword>>
    /\ UNCHANGED <<utilVars, dashVars, searchTerm>>

\* handleSignup after its await: try, catch and finally
SignUpReturns(r, outcome) ==
    /\ r \in BagToSet(signUps)
    /\ signupToast' = CASE outcome = "exists" -> ToastExists
                         [] outcome = "error" -> ToastSignupError
                         [] outcome = "user" -> ToastCreated
                         [] outcome = "nouser" -> NoToast
    /\ IF outcome = "user"
       THEN /\ location' = "/login"
            /\ signUps' = Orphaned(signUps (-) SetToBag({r}))
       ELSE /\ signUps' = signUps (-) SetToBag({r})
            /\ UNCHANGED location
    /\ loading' = IF r.live THEN FALSE ELSE loading
    /\ UNCHANGED <<email, signupPassword, confirmPassword>>
    /\ UNCHANGED <<utilVars, dashVars, searchTerm>>

\* the Link to /login of the Signup page
ClickLoginLink ==
    /\ location = "/signup"
    /\ location' = "/login"
    /\ signUps' = Orphaned(signUps)
    /\ signupToast' = NoToast
    /\ UNCHANGED <<email, signupPassword, confirmPassword, loading>>
    /\ UNCHANGED <<utilVars, dashVars, searchTerm>>

\* the Link to /signup of the Login page: a new Signup is mounted
ClickSignupLink ==
    /\ location = "/login"
    /\ location' = "/signup"
    /\ email' = NoEmail
    /\ signupPassword' = <<>>
    /\ confirmPassword' = <<>>
    /\ loading' = FALSE
    /\ signupToast' = NoToast
    /\ UNCHANGED signUps
    /\ UNCHANGED <<utilVars, dashVars, searchTerm>>

-----------------------------------------------------------------------------
(* Specifications of the password utilities *)

UtilIdle ==
    /\ genLength = 0
    /\ genI = 0
    /\ genCharset = <<>>
    /\ genPassword = <<>>
    /\ genPc = "idle"

InitStrength ==
    /\ password \in PasswordInputs
    /\ strength = NoResult
    /\ UtilIdle
    /\ SignupClosed
    /\ DashboardUnmounted

NextStrength == CheckStrength \/ ClearStrength

SpecStrength == InitStrength /\ [][NextStrength]_vars

InitGen ==
    /\ password = <<>>
    /\ strength = NoResult
    /\ UtilIdle
    /\ SignupClosed
    /\ DashboardUnmounted

NextGen ==
    \/ \E n \in GenLengths : GenCall(n)
    \/ \E k \in RandomSamples : GenStep(k)
    \/ GenReturn

SpecGen == InitGen /\ [][NextGen]_vars

-----------------------------------------------------------------------------
(* Specification of the sign-up page *)

InitSignup ==
    /\ password = <<>>
    /\ strength = NoResult
    /\ UtilIdle
    /\ SignupMounted
    /\ DashboardUnmounted

NextSignup ==
    \/ \E v \in Emails : TypeEmail(v)
    \/ \E v \in SignupPasswords : TypePassword(v)
    \/ \E v \in SignupPasswords : TypeConfirm(v)
    \/ HandleSignup
    \/ \E r \in BagToSet(signUps), outcome \in SignUpOutcomes : SignUpReturns(r, outcome)
    \/ ClickLoginLink
    \/ ClickSignupLink

SpecSignup == InitSignup /\ [][NextSignup]_vars

-----------------------------------------------------------------------------
(* Specification of the search: a dashboard that holds a list *)

InitSearch ==
    /\ password = <<>>
    /\ strength = NoResult
    /\ UtilIdle
    /\ SignupClosed
    /\ session \in SessionUsers
    /\ store = {}
    /\ nextId = 1
    /\ credentials \in UNION {[1..n -> ListedCredentials] : n \in 0..MaxListed}
    /\ showAddForm = FALSE
    /\ editingCredential = NoCredential
    /\ tasks = EmptyBag
    /\ lastToast = NoToast
    /\ confirmAnswer = "none"
    /\ searchTerm = <<>>

NextSearch == \E term \in SearchTerms : SetSearchTerm(term)

SpecSearch == InitSearch /\ [][NextSearch]_vars

-----------------------------------------------------------------------------
(* Specification of the dashboard *)

Init ==
    /\ password = <<>>
    /\ strength = NoResult
    /\ UtilIdle
    /\ SignupClosed
    /\ DashboardMounted

Next ==
    \/ \E u \in SessionUsers \cup {NoUser} : SessionChange(u)
    \/ ClickAddNew
    \/ \E cred \in Range(credentials) : ClickEdit(cred)
    \/ ClickCancel
    \/ \E pw \in FormPasswords : HandleSave(pw)
    \/ \E cred \in Range(credentials), answer \in BOOLEAN : HandleDelete(cred.id, answer)
    \/ \E t \in Running : ServeWrite(t)
    \/ \E t \in Running : ServeSelect(t)
    \/ \E t \in Running : RequestFails(t)
    \/ \E t \in Running : WriteReturns(t)
    \/ \E t \in Running : SelectReturns(t)

Spec == Init /\ [][Next]_vars

-----------------------------------------------------------------------------
(* Specification of the dashboard when no fetch fails *)

\* an insert, update or delete request fails
WriteFails(t) == t.op \in {"insert", "update", "delete"} /\ RequestFails(t)

NextFetchesSucceed ==
    \/ \E u \in SessionUsers \cup {NoUser} : SessionChange(u)
    \/ ClickAddNew
    \/ \E cred \in Range(credentials) : ClickEdit(cred)
    \/ ClickCancel
    \/ \E pw \in FormPasswords : HandleSave(pw)
    \/ \E cred \in Range(credentials), answer \in BOOLEAN : HandleDelete(cred.id, answer)
    \/ \E t \in Running : ServeWrite(t)
    \/ \E t \in Running : ServeSelect(t)
    \/ \E t \in Running : WriteFails(t)
    \/ \E t \in Running : WriteReturns(t)
    \/ \E t \in Running : SelectReturns(t)

SpecFetchesSucceed == Init /\ [][NextFetchesSucceed]_vars

-----------------------------------------------------------------------------
(* Specification of the dashboard of a user who has stored nothing yet *)

\* the table holds a row of another user only
OthersStore == {[id |-> 1, user_id |-> "u2", password |-> PwAbcdef12]}

InitNewUser ==
    /\ password = <<>>
    /\ strength = NoResult
    /\ UtilIdle
    /\ SignupClosed
    /\ session \in SessionUsers \cup {NoUser}
    /\ store = OthersStore
    /\ nextId = 2
    /\ credentials = <<>>
    /\ showAddForm = FALSE
    /\ editingCredential = NoCredential
    /\ tasks = IF SignedOut(session) THEN EmptyBag
               ELSE SetToBag({FetchRequest("fetch", session, session)})
    /\ lastToast = NoToast
    /\ confirmAnswer = "none"
    /\ searchTerm = <<>>

SpecNewUser == InitNewUser /\ [][Next]_vars

-----------------------------------------------------------------------------
(* Specification of the table serving the requests of any client *)

InitStore ==
    /\ password = <<>>
    /\ strength = NoResult
    /\ UtilIdle
    /\ SignupClosed
    /\ session = NoUser
    /\ store = InitialStore
    /\ nextId = 3
    /\ credentials = <<>>
    /\ showAddForm = FALSE
    /\ editingCredential = NoCredential
    /\ tasks = EmptyBag
    /\ lastToast = NoToast
    /\ confirmAnswer = "none"
    /\ searchTerm = <<>>

NextStore ==
    \/ \E op \in {"select", "insert", "update", "delete"}, auth \in Users \cup {NoUser},
          uid \in Users, id \in 1..MaxId, data \in ClientData :
           ClientSends(op, auth, uid, id, data)
    \/ \E t \in Running : ServeWrite(t)
    \/ \E t \in Running : ServeSelect(t)
    \/ \E t \in Running : RequestFails(t)
    \/ \E t \in Running : ClientReceives(t)

SpecStore == InitStore /\ [][NextStore]_vars

-----------------------------------------------------------------------------
(* Properties of the dashboard and the table *)

\* the requests of tasksAfter that were not in tasksBefore
Issued(tasksBefore, tasksAfter) ==
    {t \in BagToSet(tasksAfter) :
        t.pc = "sent" /\ CopiesIn(t, tasksAfter) > CopiesIn(t, tasksBefore)}

WeakFormPasswords == {pw \in FormPasswords : checkPasswordStrength(pw).score < 3}

\* C1: submitting the save form (add or edit) with a password scoring below 3
\* issues no insert or update request, and the table's rows are the same
\* after the submit as before it.
C1_WeakPasswordNoWrite ==
    [][\A pw \in WeakFormPasswords :
          HandleSave(pw) =>
              /\ Issued(tasks, tasks') = {}
              /\ store' = store]_vars

C1_Witness ==
    /\ session # NoUser
    /\ editingCredential # NoCredential
    /\ \E pw \in WeakFormPasswords :
          /\ checkPasswordStrength(pw).score = 2
          /\ lastToast = ToastStronger(checkPasswordStrength(pw).feedback)

\* C2: a delete request is issued only in a step in which the user answers
\* yes to the confirmation prompt; when the user declines, handleDelete
\* issues no request (so no re-fetch follows) and leaves the table's rows
\* and the credentials list of the view unchanged.
C2_DeleteNeedsConfirmation ==
    [][/\ (\E t \in Issued(tasks, tasks') : t.op = "delete") => confirmAnswer' = "yes"
       /\ \A c \in Range(credentials) :
             HandleDelete(c.id, FALSE) =>
                 /\ tasks' = tasks
                 /\ store' = store
                 /\ credentials' = credentials]_vars

C2_Witness ==
    /\ confirmAnswer = "no"
    /\ credentials # <<>>
    /\ tasks = EmptyBag

\* C3: the result of listing the credentials of a user id holds no row whose
\* owner differs from that user id, whoever sends the request and whatever
\* the table holds.
C3_ListOnlyOwnRows ==
    \A t \in Running :
        (t.op = "select" /\ t.pc = "served") =>
            \A i \in 1..Len(t.rows) : t.rows[i].user_id = t.uid

C3_Witness ==
    \E t \in Running :
        /\ t.op = "select"
        /\ t.pc = "served"
        /\ t.rows # <<>>
        /\ \E r \in store : r.user_id # t.uid

\* the rows with the id an update or delete request names that the user id or
\* the signed-in user of the request does not own
Mismatched(t) == {r \in store : r.id = t.id /\ (r.user_id # t.uid \/ r.user_id # t.auth)}

\* C4: an update or delete request whose user id is not the owner of the row
\* it names changes nothing: the table holds the same rows with the same
\* fields after the request is served as before it.
C4_MismatchChangesNothing ==
    [][\A t \in Running :
          (t.op \in {"update", "delete"} /\ Mismatched(t) # {} /\ ServeWrite(t)) =>
              store' = store]_vars

C4_Witness ==
    \E t \in Running :
        /\ t.op \in {"update", "delete"}
        /\ t.pc = "served"
        /\ ~t.error
        /\ \E r \in store : r.id = t.id /\ r.user_id # t.uid

\* the write requests whose response the handler takes in this step
Returning(op) == {t \in Running : t.op \in op /\ t.pc = "served" /\ WriteReturns(t)}

Writes == {"insert", "update", "delete"}

\* the fetch requests whose result the view takes in this step
Taken == {t \in Running : t.op = "select" /\ t.pc = "served" /\ SelectReturns(t)}

\* C11 as amended: every insert, update and delete request of the dashboard
\* whose response reports no error is followed, in the step that takes the
\* response, by a select request for all rows of the user id the handler
\* read from the session; a write whose response reports an error is
\* followed by no request. The credentials list changes only in a step that
\* takes the successful response of such a select, and becomes its rows.
C11_RefetchAfterWrite ==
    [][/\ \A t \in Returning(Writes) :
              IF t.error
              THEN Issued(tasks, tasks') = {}
              ELSE \E f \in Issued(tasks, tasks') :
                      /\ f.op = "select"
                      /\ f.uid = t.uid
                      /\ f.auth = session
                      /\ f.kind = t.kind
       /\ credentials' # credentials =>
              \E f \in Taken : ~f.error /\ credentials' = f.rows]_vars

C11_Witness ==
    /\ lastToast \in {ToastAdded, ToastUpdated, ToastDeleted}
    /\ credentials # <<>>
    /\ \E f \in Running : f.kind \in {"save", "delete"} /\ f.op = "select" /\ f.pc = "sent"

\* C11 as stated: every insert, update and delete request is followed, once
\* its response arrives, by a re-fetch of the user's credentials.
C11_AsStated ==
    [][\A t \in Returning(Writes) :
          \E f \in Issued(tasks, tasks') : f.op = "select" /\ f.uid = t.uid]_vars

\* C12 as amended: the add form and the edit form are never shown together.
\* The form shown is the edit form whenever editingCredential is non-null,
\* and the add form when showAddForm is true and editingCredential is null:
\* Add New shows the add form, Edit shows the edit form of the clicked row
\* (leaving showAddForm as it was, possibly true), Cancel shows no form, and
\* a submit issues an update from the edit form and an insert from the add
\* form.
C12_OneFormShown ==
    [][/\ ClickAddNew => (FormShown' = "add" /\ editingCredential' = NoCredential)
       /\ \A cred \in Range(credentials) :
             ClickEdit(cred) =>
                 /\ FormShown' = "edit"
                 /\ editingCredential' = cred
                 /\ showAddForm' = showAddForm
       /\ ClickCancel => FormShown' = "none"
       /\ \A t \in Issued(tasks, tasks') :
             t.op \in {"insert", "update"} =>
                 /\ t.op = "update" <=> FormShown = "edit"
                 /\ t.op = "insert" <=> FormShown = "add"]_vars

C12_Witness ==
    /\ showAddForm
    /\ FormShown = "edit"
    /\ \E t \in Running : t.op = "update" /\ t.pc = "sent" /\ t.id = editingCredential.id

\* C12 as stated: showAddForm is never true while editingCredential is
\* non-null.
C12_AsStated == ~(showAddForm /\ editingCredential # NoCredential)

\* the state of the view: the list and the two form flags
View == <<credentials, showAddForm, editingCredential>>

\* the handler calls of a save or delete that take a failed response in this
\* step: of their write, or of the re-fetch that follows it
FailedReturns ==
    {t \in Running :
        /\ t.kind \in {"save", "delete"}
        /\ t.pc = "served"
        /\ t.error
        /\ (WriteReturns(t) \/ SelectReturns(t))}

\* C13: when a request made during a save or a delete (the write, or the
\* re-fetch after it) fails, the handler leaves the view state (credentials
\* list, showAddForm, editingCredential) as it was before the action: the
\* submit and the click change no view state, so the step that takes the
\* failed response must change none either.
C13_FailureRestoresView ==
    [][/\ FailedReturns # {} => View' = View
       /\ \A pw \in FormPasswords : HandleSave(pw) => View' = View
       /\ \A cred \in Range(credentials), answer \in BOOLEAN :
             HandleDelete(cred.id, answer) => View' = View
       /\ \A t \in Returning(Writes) : View' = View]_vars

\* C14: an operation called while the session has no user id sends no
\* request to the table. handleSave shows 'You must be logged in to save
\* credentials' and leaves the form open; handleDelete returns without
\* prompting; the fetch of the effect returns at once. None of them changes
\* the view or the table.
C14_NoSessionNoRequest ==
    [][/\ \A pw \in FormPasswords :
             (session = NoUser /\ HandleSave(pw)) =>
                 /\ tasks' = tasks
                 /\ lastToast' = ToastMustLogIn
                 /\ FormOpen'
                 /\ View' = View
                 /\ store' = store
       /\ \A cred \in Range(credentials), answer \in BOOLEAN :
             (session = NoUser /\ HandleDelete(cred.id, answer)) =>
                 /\ tasks' = tasks
                 /\ confirmAnswer' = "none"
                 /\ lastToast' = NoToast
                 /\ View' = View
                 /\ store' = store
       /\ SessionChange(NoUser) =>
                 /\ tasks' = tasks
                 /\ lastToast' = NoToast
                 /\ View' = View
                 /\ store' = store]_vars

C14_Witness ==
    /\ session = NoUser
    /\ lastToast = ToastMustLogIn
    /\ FormOpen
    /\ credentials # <<>>
    /\ tasks = EmptyBag

StrongFormPasswords == FormPasswords \ WeakFormPasswords

\* the steps that may change which form is shown: the three buttons, and
\* the end of a save (its re-fetch returned)
FormStep ==
    \/ ClickAddNew
    \/ \E cred \in Range(credentials) : ClickEdit(cred)
    \/ ClickCancel
    \/ \E t \in Taken : t.kind = "save"

\* C17: nothing guards against concurrent submits. While the write of a
\* save is in flight the form stays as it is (only the buttons and the end
\* of a save change it), and whatever is in flight a signed-in user can
\* submit the shown form again with a strong password, which issues a write
\* of its own; two submits of the add form can so leave two inserted rows.
C17_NoSubmitGuard ==
    /\ [][(showAddForm' # showAddForm \/ editingCredential' # editingCredential)
              => FormStep]_vars
    /\ [](\A pw \in StrongFormPasswords :
             (FormOpen /\ session # NoUser /\ BagCardinality(tasks) < MaxInFlight) =>
                 ENABLED (/\ HandleSave(pw)
                          /\ \E t \in Issued(tasks, tasks') :
                                /\ t.op = IF FormShown = "edit" THEN "update" ELSE "insert"
                                /\ t.data.password = pw))

C17_Witness ==
    /\ showAddForm
    /\ editingCredential = NoCredential
    /\ \E r, q \in store :
          /\ r.id # q.id
          /\ r.user_id = session
          /\ q.user_id = session
          /\ r.password = q.password
    /\ credentials = <<>>
    /\ \A t \in Running : t.kind = "save"
    /\ BagCardinality(tasks) = 2

\* C18: whenever no dashboard request is in flight and every fetch issued
\* so far has succeeded (here: no fetch ever fails), the credentials list of
\* the view holds exactly the rows the table holds for the session user,
\* whatever the order in which requests were served and responses taken.
C18_ViewEqualsStore ==
    (tasks = EmptyBag /\ session # NoUser) =>
        /\ Range(credentials) = Select(store, session, session)
        /\ Len(credentials) = Cardinality(Select(store, session, session))

\* C19: 'Credential updated successfully!' is shown only for an update
\* request that the table applied to a row (a row with the request's id that
\* the session user owns); an update for a credential that was deleted while
\* its edit form was open, which matches no row, is not reported as a
\* success.
C19_UpdatedOnlyIfApplied ==
    [][\A t \in Returning({"update"}) : lastToast' = ToastUpdated => t.count > 0]_vars

\* the form shown, by the credential it edits: 0 for the add form, -1 for
\* no form
ShownFormId ==
    IF editingCredential # NoCredential THEN editingCredential.id
    ELSE IF showAddForm THEN 0
    ELSE -1

\* C20: the end of a successful save closes only the form the save was
\* submitted from. A form that shows another credential (or the add form
\* instead of an edit form, or the reverse) was opened after the submit,
\* while the save was in flight, and the end of that save leaves it open.
C20_SaveClosesOwnForm ==
    [][\A t \in Taken :
          (t.kind = "save" /\ ~t.error /\ ShownFormId \notin {t.id, -1}) =>
              /\ showAddForm' = showAddForm
              /\ editingCredential' = editingCredential]_vars

-----------------------------------------------------------------------------
(* Properties of the sign-up page *)

\* C15: submitting the sign-up form with a password different from its
\* confirmation sends no signUp request and does not navigate; the handler
\* ends in that step, with 'Passwords do not match' shown and loading false.
C15_MismatchBlocksSignup ==
    [][(HandleSignup /\ signupPassword # confirmPassword) =>
          /\ signUps' = signUps
          /\ location' = location
          /\ loading' = FALSE
          /\ signupToast' = ToastMismatch]_vars

C15_Witness ==
    /\ signupToast = ToastMismatch
    /\ Len(signupPassword) = Len(confirmPassword)
    /\ signUps = EmptyBag
    /\ location = "/signup"
    /\ ~loading

-----------------------------------------------------------------------------
(* Properties of the search *)

\* the pairs <<lowercase, uppercase>> of one letter
CasePairs ==
    {<<charset[i], charset[i + 26]>> : i \in 1..26} \cup {<<NonAsciiChar, NonAsciiUpperChar>>}

SameLetter(a, b) == a = b \/ <<a, b>> \in CasePairs \/ <<b, a>> \in CasePairs

\* part occurs in str at some offset, the case of the letters set aside
ContainsIgnoringCase(str, part) ==
    \E from \in 0..(Len(str) - Len(part)) :
        \A k \in 1..Len(part) : SameLetter(str[from + k], part[k])

\* the credential has the term in its platform, its username or its notes
Contains(cred) ==
    \/ ContainsIgnoringCase(cred.platform, searchTerm)
    \/ ContainsIgnoringCase(cred.username, searchTerm)
    \/ (cred.notes # Null /\ ContainsIgnoringCase(cred.notes[1], searchTerm))

\* C16: the displayed list is exactly the credentials, in their original
\* order, whose platform, username or notes contains the search term as a
\* case-insensitive substring (all of them for the empty term); changing
\* the term issues no request and leaves the credentials list and the table
\* unchanged.
C16_SearchFilter ==
    /\ [](filteredCredentials = SelectSeq(credentials, Contains))
    /\ [](searchTerm = <<>> => filteredCredentials = credentials)
    /\ [][\A term \in SearchTerms :
             SetSearchTerm(term) =>
                 /\ tasks' = tasks
                 /\ credentials' = credentials
                 /\ store' = store]_vars

C16_Witness ==
    /\ Len(searchTerm) = MaxTerm
    /\ Range(searchTerm) \cap UpperChars # {}
    /\ Len(credentials) = MaxListed
    /\ Len(filteredCredentials) = 1
    /\ filteredCredentials[1] = credentials[MaxListed]
    /\ ArrayFilter(credentials, ToLowerCase(searchTerm)) = filteredCredentials
    /\ \A i \in 1..Len(credentials) :
          /\ ~Includes(credentials[i].platform, searchTerm)
          /\ ~Includes(credentials[i].username, searchTerm)

-----------------------------------------------------------------------------
(* Properties of the password utilities *)

IsInjective(seq) == Cardinality(Range(seq)) = Len(seq)

AllSuggestions == {MsgLength, MsgUpper, MsgLower, MsgDigit, MsgSymbol}

\* C5 as amended: checkPasswordStrength("a") returns score 1, because the
\* lowercase criterion is met, and its feedback is the label "Password is
\* weak" followed by the four suggestions length, uppercase, digit, symbol.
C5_WeakExample ==
    (password = PwA /\ strength # NoResult) =>
        /\ strength.score = 1
        /\ strength.feedback = <<MsgWeak, MsgLength, MsgUpper, MsgDigit, MsgSymbol>>

C5_Witness == password = PwA /\ strength # NoResult

\* C5 as stated: checkPasswordStrength("a") returns score 0 and its feedback
\* holds the weak label with all five suggestions.
C5_AsStated ==
    (password = PwA /\ strength # NoResult) =>
        /\ strength.score = 0
        /\ ({MsgWeak} \cup AllSuggestions) \subseteq Range(strength.feedback)

\* C6 as amended: checkPasswordStrength("Abcdef12!") returns score 5 (nine
\* characters earn the first length point only) and the feedback list is
\* exactly <<"Password is strong">>.
C6_StrongExample ==
    (password = PwAbcdef12 /\ strength # NoResult) =>
        /\ strength.score = 5
        /\ strength.feedback = <<MsgStrong>>

C6_Witness == password = PwAbcdef12 /\ strength # NoResult

\* C6 as stated: checkPasswordStrength("Abcdef12!") returns score 6 and the
\* feedback list <<"Password is strong">>.
C6_AsStated ==
    (password = PwAbcdef12 /\ strength # NoResult) =>
        /\ strength.score = 6
        /\ strength.feedback = <<MsgStrong>>

\* C7: whatever the random choices, generateStrongPassword(n) returns a
\* string of exactly n characters, each a member of the charset.
C7_GeneratedLength ==
    genPc = "done" =>
        /\ Len(genPassword) = genLength
        /\ Range(genPassword) \subseteq Range(genCharset)

C7_Witness ==
    /\ genPc = "done"
    /\ genLength = DefaultLength
    /\ charset[1] \in Range(genPassword)
    /\ charset[Len(charset)] \in Range(genPassword)

\* C8 as amended: the alphabet generateStrongPassword draws from has exactly
\* 88 characters (26 lowercase, 26 uppercase, 10 digits, 26 symbols), all
\* distinct.
C8_CharsetSize ==
    genPc # "idle" =>
        /\ Len(genCharset) = 88
        /\ IsInjective(genCharset)
        /\ LowerChars \cup UpperChars \cup DigitChars \subseteq Range(genCharset)

C8_Witness == genPc = "done" /\ genPassword = <<genCharset[88]>>

\* C8 as stated: the alphabet has exactly 90 characters, all distinct.
C8_AsStated == genPc # "idle" => (Len(genCharset) = 90 /\ IsInjective(genCharset))

\* the six scoring criteria, letters and digits being those of ASCII
Criteria == {"length8", "length12", "upper", "lower", "digit", "symbol"}

Satisfies(pw, c) ==
    CASE c = "length8" -> Len(pw) >= 8
      [] c = "length12" -> Len(pw) >= 12
      [] c = "upper" -> Range(pw) \cap UpperChars # {}
      [] c = "lower" -> Range(pw) \cap LowerChars # {}
      [] c = "digit" -> Range(pw) \cap DigitChars # {}
      [] c = "symbol" -> Range(pw) \ (UpperChars \cup LowerChars \cup DigitChars) # {}

Missing(pw) == {c \in Criteria : ~Satisfies(pw, c)}

\* C9: the score is an integer in 0..6, the number of satisfied criteria
\* among length >= 8, length >= 12, uppercase, lowercase, digit, symbol.
C9_ScoreCountsCriteria ==
    strength # NoResult =>
        /\ strength.score \in 0..6
        /\ strength.score = Cardinality(Criteria \ Missing(password))

C9_Witness ==
    /\ strength # NoResult
    /\ strength.score = 6
    /\ NonAsciiChar \in Range(password)

ExpectedLabel(score) ==
    CASE score \in 0..2 -> MsgWeak
      [] score \in 3..4 -> MsgModerate
      [] score \in 5..6 -> MsgStrong

\* the five suggestions, in the order in which they are pushed
SuggestionSlots == <<"length", "upper", "lower", "digit", "symbol">>

SuggestionFor(slot) ==
    CASE slot = "length" -> MsgLength
      [] slot = "upper" -> MsgUpper
      [] slot = "lower" -> MsgLower
      [] slot = "digit" -> MsgDigit
      [] slot = "symbol" -> MsgSymbol

\* the scoring criteria a suggestion speaks of
ScoringCriteriaOf(slot) == IF slot = "length" THEN {"length8", "length12"} ELSE {slot}

\* the criterion whose absence brings the suggestion
TriggerOf(slot) == IF slot = "length" THEN "length8" ELSE slot

\* the suggestions of the slots in wanted, in order
RECURSIVE SuggestionsWhere(_, _)
SuggestionsWhere(slots, wanted) ==
    IF slots = <<>> THEN <<>>
    ELSE (IF Head(slots) \in wanted THEN <<SuggestionFor(Head(slots))>> ELSE <<>>)
             \o SuggestionsWhere(Tail(slots), wanted)

\* C10 as amended: the feedback starts with exactly one label (weak if
\* score < 3, moderate if 3 <= score < 5, strong otherwise), followed by one
\* suggestion for each missing criterion among length >= 8, uppercase,
\* lowercase, digit, symbol, in that order, and by nothing else; the
\* scoring criterion length >= 12 has no suggestion.
C10_FeedbackShape ==
    strength # NoResult =>
        LET wanted == {slot \in Range(SuggestionSlots) : TriggerOf(slot) \in Missing(password)}
        IN  strength.feedback =
                <<ExpectedLabel(strength.score)>> \o SuggestionsWhere(SuggestionSlots, wanted)

C10_Witness ==
    /\ strength # NoResult
    /\ Len(password) \in 8..11
    /\ strength.score = 3
    /\ Len(strength.feedback) = 3

\* C10 as stated: the label is followed by one suggestion per missing scoring
\* criterion, so by the length suggestion whenever a scoring criterion on the
\* length is missing.
C10_AsStated ==
    strength # NoResult =>
        LET wanted == {slot \in Range(SuggestionSlots) :
                          ScoringCriteriaOf(slot) \cap Missing(password) # {}}
        IN  strength.feedback =
                <<ExpectedLabel(strength.score)>> \o SuggestionsWhere(SuggestionSlots, wanted)

=============================================================================
